---------------------------- MODULE Spec2Model ----------------------------
(***************************************************************************)
(* gymo account service: the user and contacts controllers behind the gin  *)
(* router, over the gorm store.  Every inbound HTTP request is one request *)
(* slot; a slot advances one storage statement (or one middleware unit) at *)
(* a time, so that statements of concurrent requests interleave freely.    *)
(***************************************************************************)
EXTENDS Integers, Sequences, FiniteSets, TLC

(***************************************************************************)
(* Bounds of the model.                                                    *)
(***************************************************************************)
MaxReq == 2
MaxOps == 3
MaxTime == 3
MaxId == 4

Slots == 1..MaxReq
Ids == 1..MaxId
InitEmails == {"a", "b"}
RegisterEmails == {"a", "c"}
Passwords == {"p", "q"}

(***************************************************************************)
(* Records.  A zero id stands for Go's zero value of the struct.           *)
(***************************************************************************)
Plain(pw) == [rounds |-> 0, of |-> pw]

NoUser ==
    [id |-> 0, uid |-> 0, username |-> "", email |-> "",
     password |-> Plain(""), lastLogin |-> 0]

NoToken == [id |-> 0, lastLogin |-> 0, exp |-> 0, sig |-> FALSE]

NoData == [id |-> 0, email |-> "", username |-> "", token |-> NoToken]

NoResp == [status |-> "", code |-> 0, msg |-> "", data |-> NoData]

NoInput ==
    [token |-> NoToken, email |-> "", username |-> "", password |-> "", uid |-> 0]

(***************************************************************************)
(* Credential component.  A stored password counts the hashing rounds      *)
(* applied to a plaintext: 0 is the plaintext itself, 1 its salted hash.   *)
(***************************************************************************)
HashPassword(u) ==
    [u EXCEPT !.password = [rounds |-> @.rounds + 1, of |-> @.of]]

CheckPasswordHash(pw, stored) == stored.rounds = 1 /\ stored.of = pw

(***************************************************************************)
(* Token component.                                                        *)
(***************************************************************************)
ExpireTime == 2

GenerateToken(id, lastLogin) ==
    [id |-> id, lastLogin |-> lastLogin, exp |-> lastLogin + ExpireTime, sig |-> TRUE]

VerifyToken(tok, t) == tok.sig /\ t < tok.exp

ForgedToken == [id |-> 1, lastLogin |-> 0, exp |-> MaxTime + 1, sig |-> FALSE]

(***************************************************************************)
(* Router: the routes registered before and after the two auth middleware  *)
(* units.                                                                  *)
(***************************************************************************)
PublicRoutesWithModify == {"GetUser", "AddUser", "Login", "ModifyUser"}

PublicRoutes == {"GetUser", "AddUser", "Login"}

ProtectedRoutes == {"ModifyUser", "UserSelf"}

ContextRoutes == {"Delete", "MakeFirend"}

Routes == PublicRoutes \cup ProtectedRoutes \cup ContextRoutes

BehindAuth(h) == h \notin PublicRoutes

VARIABLES
    users,           \* User table: id -> row
    nextId,          \* auto-increment primary key of the User table
    contacts,        \* Contact table: set of <<user_uid, firend_uid>>
    firendRequests,  \* FirendRequest table: sequence of rows [from, to]
    now,             \* time.Now().Unix()
    pc,              \* slot -> position of the request in its handler chain
    handler,         \* slot -> route handler of the request
    in,              \* slot -> bound request input (JSON body, query, bearer token)
    ctx,             \* slot -> user attached to the gin context ("user")
    loc,             \* slot -> the handler's local user record (u / firend)
    resp,            \* slot -> response written with c.JSON
    issued,          \* tokens returned by Login responses, in order of return
    pwSet,           \* id -> plaintext of the password last set for the row
    ops              \* number of requests received so far

vars ==
    <<users, nextId, contacts, firendRequests, now, pc, handler, in, ctx, loc,
      resp, issued, pwSet, ops>>

store == <<users, nextId, contacts, firendRequests>>

Range(s) == {s[i] : i \in DOMAIN s}

RowsByEmail(e) == {i \in DOMAIN users : users[i].email = e}

RowsByUid(uid) == {i \in DOMAIN users : users[i].uid = uid}

Response(status, code, msg, data) ==
    [status |-> status, code |-> code, msg |-> msg, data |-> data]

BasicInfo(u) == [id |-> u.id, email |-> u.email, username |-> u.username, token |-> NoToken]

Finish(r, response) ==
    /\ pc' = [pc EXCEPT ![r] = "done"]
    /\ resp' = [resp EXCEPT ![r] = response]
    /\ loc' = [loc EXCEPT ![r] = NoUser]

(***************************************************************************)
(* gorm Save of a user: UPDATE of every column by primary key, and an      *)
(* upsert of the whole row when the UPDATE matched nothing.                *)
(***************************************************************************)
SaveUser(tbl, u) ==
    [i \in DOMAIN tbl \cup {u.id} |-> IF i = u.id THEN u ELSE tbl[i]]

InitUser(i, e) ==
    [id |-> i, uid |-> i, username |-> "n", email |-> e,
     password |-> [rounds |-> 1, of |-> "p"], lastLogin |-> 0]

Init ==
    /\ users = [i \in {1, 2} |-> InitUser(i, IF i = 1 THEN "a" ELSE "b")]
    /\ \A i \in DOMAIN users : users[i].email \in InitEmails
    /\ nextId = 3
    /\ contacts = {<<2, 1>>}
    /\ firendRequests = <<>>
    /\ now = 1
    /\ pc = [r \in Slots |-> "idle"]
    /\ handler = [r \in Slots |-> ""]
    /\ in = [r \in Slots |-> NoInput]
    /\ ctx = [r \in Slots |-> NoUser]
    /\ loc = [r \in Slots |-> NoUser]
    /\ resp = [r \in Slots |-> NoResp]
    /\ issued = <<>>
    /\ pwSet = [i \in Ids |-> IF i \in {1, 2} THEN "p" ELSE ""]
    /\ ops = 0

Tick ==
    /\ now < MaxTime
    /\ now' = now + 1
    /\ UNCHANGED <<store, pc, handler, in, ctx, loc, resp, issued, pwSet, ops>>


(***************************************************************************)
(* Inbound requests.                                                       *)
(***************************************************************************)
ClientTokens == Range(issued) \cup {ForgedToken}

LoginInputs ==
    {<<"a", "p">>, <<"a", "q">>, <<"b", "p">>, <<"c", "p">>, <<"", "p">>}

InputsOf(h) ==
    CASE h = "GetUser" ->
           {[NoInput EXCEPT !.email = e] : e \in {"", "a", "c"}}
      [] h = "AddUser" ->
           {[NoInput EXCEPT !.email = e, !.username = "n", !.password = "q"] :
                e \in RegisterEmails \cup {""}}
      [] h = "Login" ->
           {[NoInput EXCEPT !.email = x[1], !.password = x[2]] : x \in LoginInputs}
      [] h = "ModifyUser" ->
           {[NoInput EXCEPT !.token = t, !.username = n, !.email = e, !.password = p] :
                t \in ClientTokens, n \in {"", "m"}, e \in {"", "b"}, p \in {"", "q"}}
      [] h = "MakeFirend" ->
           {[NoInput EXCEPT !.token = t, !.uid = i] : t \in ClientTokens, i \in 0..3}
      [] OTHER ->
           {[NoInput EXCEPT !.token = t] : t \in ClientTokens}

(***************************************************************************)
(* The account routes alone, each with one well-formed input per token:    *)
(* the requests that decide which tokens session resolution accepts.       *)
(***************************************************************************)
SessionInputsOf(h) ==
    CASE h = "GetUser" -> {[NoInput EXCEPT !.email = "a"]}
      [] h = "AddUser" ->
           {[NoInput EXCEPT !.email = "c", !.username = "n", !.password = "q"]}
      [] h = "Login" -> {[NoInput EXCEPT !.email = "a", !.password = "p"]}
      [] h = "ModifyUser" ->
           {[NoInput EXCEPT !.token = t, !.username = "m"] : t \in ClientTokens}
      [] h = "MakeFirend" -> {}
      [] OTHER -> {[NoInput EXCEPT !.token = t] : t \in ClientTokens}

(***************************************************************************)
(* The login route with a right password, a wrong password and an unknown  *)
(* email, beside the routes that change what a login finds.                *)
(***************************************************************************)
LoginInputsOf(h) ==
    CASE h = "Login" ->
           {[NoInput EXCEPT !.email = x[1], !.password = x[2]] :
                x \in {<<"a", "p">>, <<"a", "q">>, <<"c", "p">>}}
      [] h = "AddUser" ->
           {[NoInput EXCEPT !.email = "c", !.username = "n", !.password = "q"]}
      [] h = "ModifyUser" ->
           {[NoInput EXCEPT !.token = t, !.password = "q"] : t \in Range(issued)}
      [] OTHER -> {}

(***************************************************************************)
(* The friend-request route for every target UID, beside the routes that   *)
(* add and remove the users it looks up.                                   *)
(***************************************************************************)
ContactsInputsOf(h) ==
    CASE h = "MakeFirend" ->
           {[NoInput EXCEPT !.token = t, !.uid = i] : t \in Range(issued), i \in 1..3}
      [] h = "Delete" -> {[NoInput EXCEPT !.token = t] : t \in Range(issued)}
      [] h = "AddUser" ->
           {[NoInput EXCEPT !.email = "c", !.username = "n", !.password = "q"]}
      [] OTHER -> {}

InputsAmong(scope, h) ==
    CASE scope = "session" -> SessionInputsOf(h)
      [] scope = "login" -> LoginInputsOf(h)
      [] scope = "contacts" -> ContactsInputsOf(h)
      [] OTHER -> InputsOf(h)

Entry(h) ==
    CASE h = "AddUser" -> "FirstOrCreateFind"
      [] h = "Login" -> "LoginFind"
      [] h = "MakeFirend" -> "FindFirend"
      [] OTHER -> h

ReceiveAmong(r, scope) ==
    /\ pc[r] \in {"idle", "done"}
    /\ ops < MaxOps
    /\ \E h \in Routes :
         \E x \in InputsAmong(scope, h) :
            /\ handler' = [handler EXCEPT ![r] = h]
            /\ in' = [in EXCEPT ![r] = x]
            /\ pc' = [pc EXCEPT ![r] = IF BehindAuth(h) THEN "TokenAuth" ELSE Entry(h)]
    /\ ctx' = [ctx EXCEPT ![r] = NoUser]
    /\ loc' = [loc EXCEPT ![r] = NoUser]
    /\ resp' = [resp EXCEPT ![r] = NoResp]
    /\ ops' = ops + 1
    /\ UNCHANGED <<store, now, issued, pwSet>>

Receive(r) == ReceiveAmong(r, "service")

(***************************************************************************)
(* Session resolution: the two middleware units in front of the protected  *)
(* routes.                                                                 *)
(***************************************************************************)
Unauthorized == Response("error", 401, "unauthorized", NoData)

TokenAuth(r) ==
    /\ pc[r] = "TokenAuth"
    /\ IF VerifyToken(in[r].token, now)
         THEN /\ pc' = [pc EXCEPT ![r] = "TokenTimeAuth"]
              /\ UNCHANGED <<resp, loc>>
         ELSE Finish(r, Unauthorized)
    /\ UNCHANGED <<store, now, handler, in, ctx, issued, pwSet, ops>>

Fresh(tok, tbl) == tok.id \in DOMAIN tbl /\ tbl[tok.id].lastLogin = tok.lastLogin

TokenTimeAuth(r) ==
    /\ pc[r] = "TokenTimeAuth"
    /\ \E dbOk \in BOOLEAN :
         IF dbOk /\ Fresh(in[r].token, users)
           THEN /\ ctx' = [ctx EXCEPT ![r] = users[in[r].token.id]]
                /\ pc' = [pc EXCEPT ![r] = Entry(handler[r])]
                /\ UNCHANGED <<resp, loc>>
           ELSE /\ Finish(r, Unauthorized)
                /\ UNCHANGED ctx
    /\ UNCHANGED <<store, now, handler, in, issued, pwSet, ops>>

(***************************************************************************)
(* User controller.                                                        *)
(***************************************************************************)
StorageError == Response("error", 500, "storage error", NoData)

NoContextUser == Response("error", 500, "parse token failed", NoData)

FoundByEmail(e) == {users[i] : i \in RowsByEmail(e)}

GetUserResponses(x, dbOk) ==
    IF x.email = "" THEN {Response("error", 400, "email is empty", NoData)}
    ELSE IF ~dbOk THEN {StorageError}
    ELSE IF FoundByEmail(x.email) = {}
      THEN {Response("error", 400, "user not exist", NoData)}
    ELSE {Response("ok", 200, "", BasicInfo(u)) : u \in FoundByEmail(x.email)}

GetUser(r) ==
    /\ pc[r] = "GetUser"
    /\ \E dbOk \in BOOLEAN :
         \E response \in GetUserResponses(in[r], dbOk) : Finish(r, response)
    /\ UNCHANGED <<store, now, handler, in, ctx, issued, pwSet, ops>>

(***************************************************************************)
(* AddUser: FirstOrCreate is a SELECT by email followed, when it returned  *)
(* no row, by an INSERT; the two statements are separate steps.            *)
(***************************************************************************)
AlreadyExistCode == 400

FirstOrCreateFind(r) ==
    /\ pc[r] = "FirstOrCreateFind"
    /\ \E dbOk \in BOOLEAN :
         IF in[r].email = ""
           THEN Finish(r, Response("error", 400, "bind error", NoData))
         ELSE IF ~dbOk THEN Finish(r, StorageError)
         ELSE IF RowsByEmail(in[r].email) # {}
           THEN Finish(r, Response("error", AlreadyExistCode, "user already exist", NoData))
         ELSE /\ pc' = [pc EXCEPT ![r] = "FirstOrCreateCreate"]
              /\ UNCHANGED <<resp, loc>>
    /\ UNCHANGED <<store, now, handler, in, ctx, issued, pwSet, ops>>

BeforeCreate(u) == HashPassword(u)

NewUser(x, id) ==
    [id |-> id, uid |-> id, username |-> x.username, email |-> x.email,
     password |-> Plain(x.password), lastLogin |-> 0]

FirstOrCreateCreate(r) ==
    /\ pc[r] = "FirstOrCreateCreate"
    /\ \E dbOk \in BOOLEAN :
         IF ~dbOk
           THEN /\ Finish(r, StorageError)
                /\ UNCHANGED <<users, nextId, pwSet>>
           ELSE /\ nextId <= MaxId
                /\ LET u == BeforeCreate(NewUser(in[r], nextId)) IN
                     /\ users' = SaveUser(users, u)
                     /\ pwSet' = [pwSet EXCEPT ![u.id] = in[r].password]
                     /\ Finish(r, Response("ok", 200, "", BasicInfo(u)))
                /\ nextId' = nextId + 1
    /\ UNCHANGED <<contacts, firendRequests, now, handler, in, ctx, issued, ops>>

(***************************************************************************)
(* Login.                                                                  *)
(***************************************************************************)
LoginFindUnchecked(r) ==
    /\ pc[r] = "LoginFind"
    /\ \E dbOk \in BOOLEAN, tokenOk \in BOOLEAN :
         IF in[r].email = ""
           THEN Finish(r, Response("error", 400, "bind error", NoData))
         ELSE IF ~dbOk THEN Finish(r, StorageError)
         ELSE IF FoundByEmail(in[r].email) = {}
           THEN Finish(r, Response("error", 400, "user not exist", NoData))
         ELSE \E u \in FoundByEmail(in[r].email) :
                IF ~tokenOk
                  THEN Finish(r, Response("error", 500, "token error", NoData))
                ELSE /\ loc' = [loc EXCEPT ![r] = [u EXCEPT !.lastLogin = now]]
                     /\ pc' = [pc EXCEPT ![r] = "LoginSave"]
                     /\ UNCHANGED resp
    /\ UNCHANGED <<store, now, handler, in, ctx, issued, pwSet, ops>>

LoginFind(r) ==
    /\ pc[r] = "LoginFind"
    /\ \E dbOk \in BOOLEAN, tokenOk \in BOOLEAN :
         IF in[r].email = ""
           THEN Finish(r, Response("error", 400, "bind error", NoData))
         ELSE IF ~dbOk THEN Finish(r, StorageError)
         ELSE IF FoundByEmail(in[r].email) = {}
           THEN Finish(r, Response("error", 400, "user not exist", NoData))
         ELSE \E u \in FoundByEmail(in[r].email) :
                IF ~CheckPasswordHash(in[r].password, u.password)
                  THEN Finish(r, Response("error", 400, "password not correct", NoData))
                ELSE IF ~tokenOk
                  THEN Finish(r, Response("error", 500, "token error", NoData))
                ELSE /\ loc' = [loc EXCEPT ![r] = [u EXCEPT !.lastLogin = now]]
                     /\ pc' = [pc EXCEPT ![r] = "LoginSave"]
                     /\ UNCHANGED resp
    /\ UNCHANGED <<store, now, handler, in, ctx, issued, pwSet, ops>>

LoginResult(u) ==
    [id |-> u.id, email |-> u.email, username |-> u.username,
     token |-> GenerateToken(u.id, u.lastLogin)]

LoginSave(r) ==
    /\ pc[r] = "LoginSave"
    /\ \E dbOk \in BOOLEAN :
         users' = IF dbOk THEN SaveUser(users, loc[r]) ELSE users
    /\ issued' = Append(issued, LoginResult(loc[r]).token)
    /\ Finish(r, Response("ok", 200, "", LoginResult(loc[r])))
    /\ UNCHANGED <<nextId, contacts, firendRequests, now, handler, in, ctx, pwSet, ops>>

(***************************************************************************)
(* Handlers behind the auth middleware.                                    *)
(***************************************************************************)
ApplyModify(u, x) ==
    LET u1 == IF x.username # "" THEN [u EXCEPT !.username = x.username] ELSE u
        u2 == IF x.email # "" THEN [u1 EXCEPT !.email = x.email] ELSE u1
    IN  IF x.password # ""
          THEN HashPassword([u2 EXCEPT !.password = Plain(x.password)])
          ELSE u2

ModifyUser(r) ==
    /\ pc[r] = "ModifyUser"
    /\ \E dbOk \in BOOLEAN :
         IF ctx[r] = NoUser
           THEN /\ Finish(r, NoContextUser)
                /\ UNCHANGED <<users, pwSet>>
         ELSE IF ~dbOk
           THEN /\ Finish(r, StorageError)
                /\ UNCHANGED <<users, pwSet>>
         ELSE LET u == ApplyModify(ctx[r], in[r]) IN
                /\ users' = SaveUser(users, u)
                /\ pwSet' = IF in[r].password # ""
                              THEN [pwSet EXCEPT ![u.id] = in[r].password]
                              ELSE pwSet
                /\ Finish(r, Response("ok", 200, "", BasicInfo(u)))
    /\ UNCHANGED <<nextId, contacts, firendRequests, now, handler, in, ctx, issued, ops>>

UserSelf(r) ==
    /\ pc[r] = "UserSelf"
    /\ IF ctx[r] = NoUser
         THEN Finish(r, NoContextUser)
         ELSE Finish(r, Response("ok", 200, "", BasicInfo(ctx[r])))
    /\ UNCHANGED <<store, now, handler, in, ctx, issued, pwSet, ops>>

DeleteUser(tbl, u) ==
    [i \in {j \in DOMAIN tbl : ~(j = u.id /\ tbl[j].email = u.email)} |-> tbl[i]]

Delete(r) ==
    /\ pc[r] = "Delete"
    /\ \E dbOk \in BOOLEAN :
         IF ctx[r] = NoUser
           THEN /\ Finish(r, NoContextUser)
                /\ UNCHANGED users
         ELSE IF ~dbOk
           THEN /\ Finish(r, StorageError)
                /\ UNCHANGED users
         ELSE /\ users' = DeleteUser(users, ctx[r])
              /\ Finish(r, Response("ok", 200, "account has been deleted", NoData))
    /\ UNCHANGED <<nextId, contacts, firendRequests, now, handler, in, ctx, issued,
                   pwSet, ops>>


(***************************************************************************)
(* Contacts controller: MakeFirend, one step per storage statement.        *)
(***************************************************************************)
Unprocessable(msg) == Response("error", 422, msg, NoData)

FindFirendLookupFirst(r) ==
    /\ pc[r] = "FindFirend"
    /\ \E dbOk \in BOOLEAN :
         IF in[r].uid = 0
           THEN Finish(r, Response("error", 400, "bind error", NoData))
         ELSE IF ~dbOk THEN Finish(r, StorageError)
         ELSE IF RowsByUid(in[r].uid) = {}
           THEN Finish(r, Unprocessable("target user not exist"))
         ELSE IF in[r].uid = ctx[r].uid
           THEN Finish(r, Unprocessable("cannot make firend with self"))
         ELSE \E i \in RowsByUid(in[r].uid) :
                /\ loc' = [loc EXCEPT ![r] = users[i]]
                /\ pc' = [pc EXCEPT ![r] = "FindContact"]
                /\ UNCHANGED resp
    /\ UNCHANGED <<store, now, handler, in, ctx, issued, pwSet, ops>>

FindFirend(r) ==
    /\ pc[r] = "FindFirend"
    /\ \E dbOk \in BOOLEAN :
         IF in[r].uid = 0
           THEN Finish(r, Response("error", 400, "bind error", NoData))
         ELSE IF in[r].uid = ctx[r].uid
           THEN Finish(r, Unprocessable("cannot make firend with self"))
         ELSE IF ~dbOk THEN Finish(r, StorageError)
         ELSE IF RowsByUid(in[r].uid) = {}
           THEN Finish(r, Unprocessable("target user not exist"))
         ELSE \E i \in RowsByUid(in[r].uid) :
                /\ loc' = [loc EXCEPT ![r] = users[i]]
                /\ pc' = [pc EXCEPT ![r] = "FindContact"]
                /\ UNCHANGED resp
    /\ UNCHANGED <<store, now, handler, in, ctx, issued, pwSet, ops>>

IsContactReversed(from, to) == <<to, from>> \in contacts

IsContact(from, to) == <<from, to>> \in contacts

FindContactAfterRequest(r) ==
    /\ pc[r] = "FindContact"
    /\ \E dbOk \in BOOLEAN :
         IF ~dbOk THEN Finish(r, StorageError)
         ELSE IF \E k \in DOMAIN firendRequests :
                   /\ firendRequests[k].from = ctx[r].uid
                   /\ firendRequests[k].to = in[r].uid
           THEN Finish(r, Unprocessable("already sent a request to user"))
         ELSE IF <<ctx[r].uid, in[r].uid>> \in contacts
           THEN Finish(r, Unprocessable("target user is already firend"))
         ELSE /\ pc' = [pc EXCEPT ![r] = "FindRequest"]
              /\ UNCHANGED <<resp, loc>>
    /\ UNCHANGED <<store, now, handler, in, ctx, issued, pwSet, ops>>

FindContact(r) ==
    /\ pc[r] = "FindContact"
    /\ \E dbOk \in BOOLEAN :
         IF ~dbOk THEN Finish(r, StorageError)
         ELSE IF IsContact(ctx[r].uid, in[r].uid)
           THEN Finish(r, Unprocessable("target user is already firend"))
         ELSE /\ pc' = [pc EXCEPT ![r] = "FindRequest"]
              /\ UNCHANGED <<resp, loc>>
    /\ UNCHANGED <<store, now, handler, in, ctx, issued, pwSet, ops>>

RequestRowsReversed(from, to) ==
    {k \in DOMAIN firendRequests :
        firendRequests[k].from = to /\ firendRequests[k].to = from}

RequestRows(from, to) ==
    {k \in DOMAIN firendRequests :
        firendRequests[k].from = from /\ firendRequests[k].to = to}

FindRequest(r) ==
    /\ pc[r] = "FindRequest"
    /\ \E dbOk \in BOOLEAN :
         IF ~dbOk THEN Finish(r, StorageError)
         ELSE IF RequestRows(ctx[r].uid, in[r].uid) # {}
           THEN Finish(r, Unprocessable("already sent a request to user"))
         ELSE /\ pc' = [pc EXCEPT ![r] = "SaveRequest"]
              /\ UNCHANGED <<resp, loc>>
    /\ UNCHANGED <<store, now, handler, in, ctx, issued, pwSet, ops>>

SaveRequest(r) ==
    /\ pc[r] = "SaveRequest"
    /\ \E dbOk \in BOOLEAN :
         firendRequests' =
            IF dbOk
              THEN Append(firendRequests, [from |-> ctx[r].uid, to |-> loc[r].uid])
              ELSE firendRequests
    /\ Finish(r, Response("ok", 200, "", NoData))
    /\ UNCHANGED <<users, nextId, contacts, now, handler, in, ctx, issued, pwSet, ops>>

(***************************************************************************)
(* The service.                                                            *)
(***************************************************************************)
Next ==
    \/ Tick
    \/ \E r \in Slots : Receive(r)
    \/ \E r \in Slots : TokenAuth(r)
    \/ \E r \in Slots : TokenTimeAuth(r)
    \/ \E r \in Slots : GetUser(r)
    \/ \E r \in Slots : FirstOrCreateFind(r)
    \/ \E r \in Slots : FirstOrCreateCreate(r)
    \/ \E r \in Slots : LoginFind(r)
    \/ \E r \in Slots : LoginSave(r)
    \/ \E r \in Slots : ModifyUser(r)
    \/ \E r \in Slots : UserSelf(r)
    \/ \E r \in Slots : Delete(r)
    \/ \E r \in Slots : FindFirend(r)
    \/ \E r \in Slots : FindContact(r)
    \/ \E r \in Slots : FindRequest(r)
    \/ \E r \in Slots : SaveRequest(r)

Spec == Init /\ [][Next]_vars

(***************************************************************************)
(* The service restricted to the account routes and inputs.                *)
(***************************************************************************)
SessionReceive(r) == ReceiveAmong(r, "session")

NextSession ==
    \/ Tick
    \/ \E r \in Slots : SessionReceive(r)
    \/ \E r \in Slots : TokenAuth(r)
    \/ \E r \in Slots : TokenTimeAuth(r)
    \/ \E r \in Slots : GetUser(r)
    \/ \E r \in Slots : FirstOrCreateFind(r)
    \/ \E r \in Slots : FirstOrCreateCreate(r)
    \/ \E r \in Slots : LoginFind(r)
    \/ \E r \in Slots : LoginSave(r)
    \/ \E r \in Slots : ModifyUser(r)
    \/ \E r \in Slots : UserSelf(r)
    \/ \E r \in Slots : Delete(r)

SpecSession == Init /\ [][NextSession]_vars

(***************************************************************************)
(* The service restricted to the login route and what a login depends on.  *)
(***************************************************************************)
LoginReceive(r) == ReceiveAmong(r, "login")

NextLogin ==
    \/ Tick
    \/ \E r \in Slots : LoginReceive(r)
    \/ \E r \in Slots : TokenAuth(r)
    \/ \E r \in Slots : TokenTimeAuth(r)
    \/ \E r \in Slots : FirstOrCreateFind(r)
    \/ \E r \in Slots : FirstOrCreateCreate(r)
    \/ \E r \in Slots : LoginFind(r)
    \/ \E r \in Slots : LoginSave(r)
    \/ \E r \in Slots : ModifyUser(r)

SpecLogin == Init /\ [][NextLogin]_vars

(***************************************************************************)
(* The contacts workflow, started with both users logged in, a Contact row *)
(* whose target has no User row, and a request row of a pair that has      *)
(* since become a contact.  The clock stands still: no step of the         *)
(* workflow reads it, and the tokens stay unexpired.                       *)
(***************************************************************************)
InitContacts ==
    /\ users = [i \in {1, 2} |->
                  [InitUser(i, IF i = 1 THEN "a" ELSE "b") EXCEPT !.lastLogin = 1]]
    /\ nextId = 3
    /\ contacts = {<<2, 1>>, <<1, 3>>}
    /\ firendRequests = <<[from |-> 2, to |-> 1]>>
    /\ now = 1
    /\ pc = [r \in Slots |-> "idle"]
    /\ handler = [r \in Slots |-> ""]
    /\ in = [r \in Slots |-> NoInput]
    /\ ctx = [r \in Slots |-> NoUser]
    /\ loc = [r \in Slots |-> NoUser]
    /\ resp = [r \in Slots |-> NoResp]
    /\ issued = <<GenerateToken(1, 1), GenerateToken(2, 1)>>
    /\ pwSet = [i \in Ids |-> IF i \in {1, 2} THEN "p" ELSE ""]
    /\ ops = 0

ContactsReceive(r) == ReceiveAmong(r, "contacts")

NextContacts ==
    \/ \E r \in Slots : ContactsReceive(r)
    \/ \E r \in Slots : TokenAuth(r)
    \/ \E r \in Slots : TokenTimeAuth(r)
    \/ \E r \in Slots : FirstOrCreateFind(r)
    \/ \E r \in Slots : FirstOrCreateCreate(r)
    \/ \E r \in Slots : Delete(r)
    \/ \E r \in Slots : FindFirend(r)
    \/ \E r \in Slots : FindContact(r)
    \/ \E r \in Slots : FindRequest(r)
    \/ \E r \in Slots : SaveRequest(r)

SpecContacts == InitContacts /\ [][NextContacts]_vars

(***************************************************************************)
(* The service taking one request at a time: a request is received only    *)
(* when every other one has been answered.                                 *)
(***************************************************************************)
SequentialReceive(r) ==
    /\ \A q \in Slots : pc[q] \in {"idle", "done"}
    /\ Receive(r)

NextSequential ==
    \/ Tick
    \/ \E r \in Slots : SequentialReceive(r)
    \/ \E r \in Slots : TokenAuth(r)
    \/ \E r \in Slots : TokenTimeAuth(r)
    \/ \E r \in Slots : GetUser(r)
    \/ \E r \in Slots : FirstOrCreateFind(r)
    \/ \E r \in Slots : FirstOrCreateCreate(r)
    \/ \E r \in Slots : LoginFind(r)
    \/ \E r \in Slots : LoginSave(r)
    \/ \E r \in Slots : ModifyUser(r)
    \/ \E r \in Slots : UserSelf(r)
    \/ \E r \in Slots : Delete(r)
    \/ \E r \in Slots : FindFirend(r)
    \/ \E r \in Slots : FindContact(r)
    \/ \E r \in Slots : FindRequest(r)
    \/ \E r \in Slots : SaveRequest(r)

SpecSequential == Init /\ [][NextSequential]_vars



(***************************************************************************)
(* Session resolution of a token against a clock value and a User table.   *)
(***************************************************************************)
Resolves(tok, t, tbl) == VerifyToken(tok, t) /\ Fresh(tok, tbl)

LoginReturns(r) == pc[r] = "LoginSave" /\ pc'[r] = "done" /\ resp'[r].status = "ok"

(***************************************************************************)
(* C1: of the Register requests for one unused email that ran and          *)
(* finished (nothing else was received, no statement failed in storage),   *)
(* exactly one answered ok, every other answered "user already exist",     *)
(* and the store holds exactly one row for that email.                     *)
(***************************************************************************)
C1_RegisterExactlyOne ==
    \A e \in RegisterEmails \ InitEmails :
        LET regs == {r \in Slots : handler[r] = "AddUser" /\ in[r].email = e}
            oks == {r \in regs : resp[r].status = "ok"}
        IN  ( /\ regs # {}
              /\ ops = Cardinality(regs)
              /\ \A r \in regs : pc[r] = "done" /\ resp[r] # StorageError )
            => /\ Cardinality(oks) = 1
               /\ \A r \in regs \ oks : resp[r].msg = "user already exist"
               /\ Cardinality(RowsByEmail(e)) = 1

(***************************************************************************)
(* C2: when a Login returns ok, its token passes session resolution at     *)
(* that moment, and every token returned earlier for the same user with a  *)
(* smaller login timestamp is rejected.                                    *)
(***************************************************************************)
C2_TokenFreshness ==
    [][\A r \in Slots :
          LoginReturns(r) =>
             LET tok == resp'[r].data.token IN
               /\ Resolves(tok, now', users')
               /\ \A k \in DOMAIN issued :
                     (issued[k].id = tok.id /\ issued[k].lastLogin < tok.lastLogin)
                        => ~Resolves(issued[k], now', users')]_vars

(***************************************************************************)
(* C3: once a later Login of a user has returned, no token returned by an  *)
(* earlier Login of that user passes session resolution.                   *)
(***************************************************************************)
C3_SingleActiveLogin ==
    \A j, k \in DOMAIN issued :
        (j < k /\ issued[j].id = issued[k].id) => ~Resolves(issued[j], now, users)

(***************************************************************************)
(* C4: a Login that answers ok has written its login timestamp: the        *)
(* stored last-login of the user equals the timestamp in the token at the  *)
(* moment the token is returned.                                           *)
(***************************************************************************)
C4_LoginOkOnlyIfSaved ==
    [][\A r \in Slots :
          LoginReturns(r) => Fresh(resp'[r].data.token, users')]_vars

(***************************************************************************)
(* C5: a request for ModifyUser or UserSelf reaches its handler only from  *)
(* the second middleware unit, which it reaches only from the first; the   *)
(* token verified in the first, the user of the embedded id was loaded and *)
(* its last-login equals the embedded timestamp in the second; a request   *)
(* leaving a middleware unit any other way is answered 401.  A request for *)
(* GetUser, AddUser or Login goes straight to its handler.                 *)
(***************************************************************************)
C5_ProtectedNeedsResolution ==
    [][\A r \in Slots :
          LET moved == pc'[r] # pc[r]
              tok == in[r].token
          IN
          /\ (moved /\ pc'[r] = "TokenTimeAuth")
                => pc[r] = "TokenAuth" /\ VerifyToken(tok, now)
          /\ (moved /\ pc'[r] \in {"ModifyUser", "UserSelf"})
                => /\ pc[r] = "TokenTimeAuth"
                   /\ tok.id \in DOMAIN users
                   /\ users[tok.id].lastLogin = tok.lastLogin
                   /\ ctx'[r] = users[tok.id]
          /\ (moved /\ pc[r] = "TokenAuth" /\ ~VerifyToken(tok, now))
                => pc'[r] = "done" /\ resp'[r].code = 401
          /\ (moved /\ pc[r] = "TokenTimeAuth" /\ ~Fresh(tok, users))
                => pc'[r] = "done" /\ resp'[r].code = 401
          /\ (moved /\ pc[r] \in {"idle", "done"})
                => IF handler'[r] \in {"GetUser", "AddUser", "Login"}
                     THEN pc'[r] = Entry(handler'[r])
                     ELSE pc'[r] = "TokenAuth"
          /\ (handler[r] \in {"ModifyUser", "UserSelf"} /\ pc[r] = "done"
                /\ ctx[r] = NoUser)
                => resp[r].code = 401]_vars

C5_Witness ==
    \E r, q \in Slots :
        /\ handler[r] = "ModifyUser" /\ pc[r] = "ModifyUser" /\ ctx[r] # NoUser
        /\ handler[q] = "UserSelf" /\ pc[q] = "done" /\ resp[q].code = 401
        /\ in[q].token.sig /\ in[q].token.exp <= now

(***************************************************************************)
(* C6: Register of an email that a stored user has creates no row,         *)
(* changes no row and answers error 409; a Register that answers ok has    *)
(* created exactly one row, for the email given, and returns it.           *)
(***************************************************************************)
C6_RegisterOutcomes ==
    [][\A r \in Slots :
          /\ ( /\ pc[r] = "FirstOrCreateFind" /\ pc'[r] = "done"
               /\ RowsByEmail(in[r].email) # {}
               /\ resp'[r] # StorageError )
             => /\ users' = users
                /\ resp'[r].status = "error"
                /\ resp'[r].code = 409
          /\ ( pc[r] = "FirstOrCreateCreate" /\ pc'[r] = "done"
               /\ resp'[r].status = "ok" )
             => \E i \in DOMAIN users' \ DOMAIN users :
                   /\ DOMAIN users' = DOMAIN users \cup {i}
                   /\ \A j \in DOMAIN users : users'[j] = users[j]
                   /\ users'[i].email = in[r].email
                   /\ resp'[r].data = BasicInfo(users'[i])]_vars

(***************************************************************************)
(* C7: no two stored users have the same email.                            *)
(***************************************************************************)
C7_EmailUnique ==
    \A i, j \in DOMAIN users : users[i].email = users[j].email => i = j

(***************************************************************************)
(* C8: a ModifyUser that answers ok leaves each of username, email and     *)
(* password of the stored row as it was stored when the field is empty in  *)
(* the request, and replaces it (the password by its hash) otherwise.      *)
(***************************************************************************)
C8_ModifyOnlySupplied ==
    [][\A r \in Slots :
          ( /\ pc[r] = "ModifyUser" /\ pc'[r] = "done"
            /\ resp'[r].status = "ok"
            /\ ctx[r].id \in DOMAIN users )
          => LET old == users[ctx[r].id]
                 new == users'[ctx[r].id]
                 x == in[r]
             IN /\ new.username = IF x.username = "" THEN old.username ELSE x.username
                /\ new.email = IF x.email = "" THEN old.email ELSE x.email
                /\ new.password = IF x.password = "" THEN old.password
                                  ELSE [rounds |-> 1, of |-> x.password]]_vars

(***************************************************************************)
(* C9: every stored password is the hash of a plaintext, never the         *)
(* plaintext, and a plaintext passes the check against the stored value    *)
(* exactly when it is the password last set for that user by Register or   *)
(* ModifyUser.                                                             *)
(***************************************************************************)
C9_PasswordOpacity ==
    \A i \in DOMAIN users :
        /\ users[i].password.rounds = 1
        /\ \A pw \in Passwords :
              CheckPasswordHash(pw, users[i].password) <=> pw = pwSet[i]

(***************************************************************************)
(* C10: the FirendRequest table holds at most one row for each ordered     *)
(* pair (from UID, to UID).                                                *)
(***************************************************************************)
C10_OneRequestPerPair ==
    \A j, k \in DOMAIN firendRequests :
        ( /\ firendRequests[j].from = firendRequests[k].from
          /\ firendRequests[j].to = firendRequests[k].to ) => j = k

(***************************************************************************)
(* A friend request of slot r, past session resolution, from its user to   *)
(* the target UID of its input.                                            *)
(***************************************************************************)
Submission(r) == handler[r] = "MakeFirend" /\ ctx[r] # NoUser

SamePair(q, r) == ctx[q].uid = ctx[r].uid /\ in[q].uid = in[r].uid

(***************************************************************************)
(* C11: with requests taken one at a time, when a friend request to an     *)
(* existing target has answered ok and the same requester submits the same *)
(* target again, the second submission (no query of it failing in storage) *)
(* answers 422 "already sent a request to user", inserts nothing, and the  *)
(* table holds exactly one row for the pair.                               *)
(***************************************************************************)
C11_SecondIsDuplicate ==
    [][\A q, r \in Slots :
          ( /\ q # r
            /\ Submission(q) /\ pc[q] = "done" /\ resp[q].status = "ok"
            /\ Submission(r) /\ SamePair(q, r)
            /\ pc[r] # "done" /\ pc'[r] = "done"
            /\ RowsByUid(in[r].uid) # {}
            /\ resp'[r] # StorageError )
          => /\ resp'[r] = Unprocessable("already sent a request to user")
             /\ firendRequests' = firendRequests
             /\ Cardinality(RequestRows(ctx[r].uid, in[r].uid)) = 1]_vars

(***************************************************************************)
(* C12: a friend request whose target UID is the requester's UID leaves    *)
(* the handler's first step answered 422 "cannot make firend with self",   *)
(* with no query run and the User, Contact and FirendRequest tables as     *)
(* they were; no FirendRequest row ever has the same from and to UID.      *)
(***************************************************************************)
C12_SelfRequestRejected ==
    [][/\ \A r \in Slots :
             ( /\ Submission(r) /\ pc[r] = "FindFirend" /\ pc'[r] # pc[r]
               /\ in[r].uid = ctx[r].uid )
             => /\ pc'[r] = "done"
                /\ resp'[r] = Unprocessable("cannot make firend with self")
                /\ store' = store
       /\ \A k \in DOMAIN firendRequests' :
             firendRequests'[k].from # firendRequests'[k].to]_vars

C12_Witness ==
    \E r \in Slots :
        /\ Submission(r) /\ pc[r] = "done"
        /\ in[r].uid = ctx[r].uid
        /\ RowsByUid(ctx[r].uid) = {}
        /\ resp[r] = Unprocessable("cannot make firend with self")

(***************************************************************************)
(* C13: a friend request to another user for which a Contact row           *)
(* (requester UID, target UID) exists never goes past the contact query:   *)
(* once the target was found and the contact query ran, it is answered     *)
(* 422 "target user is already firend"; before that it can only end on a   *)
(* missing target or a storage error.  The FirendRequest table is left     *)
(* unchanged by every step of it.                                          *)
(***************************************************************************)
C13_ContactRejected ==
    [][\A r \in Slots :
          ( /\ Submission(r) /\ pc'[r] # pc[r]
            /\ pc[r] \in {"FindFirend", "FindContact", "FindRequest", "SaveRequest"}
            /\ in[r].uid # ctx[r].uid
            /\ <<ctx[r].uid, in[r].uid>> \in contacts )
          => /\ pc[r] \in {"FindFirend", "FindContact"}
             /\ pc'[r] \in {"FindContact", "done"}
             /\ (pc[r] = "FindFirend" /\ pc'[r] = "done")
                   => resp'[r] \in {StorageError, Unprocessable("target user not exist")}
             /\ (pc[r] = "FindContact")
                   => resp'[r] \in {StorageError,
                                    Unprocessable("target user is already firend")}
             /\ firendRequests' = firendRequests]_vars

C13_Witness ==
    \E r \in Slots :
        /\ Submission(r) /\ pc[r] = "done"
        /\ <<ctx[r].uid, in[r].uid>> \in contacts
        /\ RowsByUid(in[r].uid) # {}
        /\ resp[r] = Unprocessable("target user is already firend")

(***************************************************************************)
(* C14: the FirendRequest table changes only by the last step of a friend  *)
(* request, which appends the row (requester UID, target UID) and leaves   *)
(* the User and Contact tables alone; a request reaches that step only     *)
(* through the four checks in turn, each having passed when it ran (target *)
(* differs from the requester and has a User row, no Contact row for the   *)
(* pair, no FirendRequest row for the pair); every other step of a friend  *)
(* request, among them every step that answers an error, leaves the three  *)
(* tables unchanged.                                                       *)
(***************************************************************************)
C14_InsertOnlyAfterChecks ==
    [][/\ (firendRequests' # firendRequests)
             => \E r \in Slots :
                   /\ Submission(r) /\ pc[r] = "SaveRequest" /\ pc'[r] = "done"
                   /\ firendRequests' =
                         Append(firendRequests, [from |-> ctx[r].uid, to |-> in[r].uid])
                   /\ users' = users /\ contacts' = contacts
       /\ \A r \in Slots :
             LET moved == pc'[r] # pc[r] /\ handler'[r] = "MakeFirend"
                 u == ctx[r]
                 x == in[r]
             IN
             /\ (moved /\ pc'[r] = "FindContact")
                   => /\ pc[r] = "FindFirend"
                      /\ x.uid # u.uid
                      /\ \E i \in DOMAIN users : users[i].uid = x.uid
             /\ (moved /\ pc'[r] = "FindRequest")
                   => pc[r] = "FindContact" /\ <<u.uid, x.uid>> \notin contacts
             /\ (moved /\ pc'[r] = "SaveRequest")
                   => /\ pc[r] = "FindRequest"
                      /\ \A k \in DOMAIN firendRequests :
                            ~(firendRequests[k].from = u.uid /\ firendRequests[k].to = x.uid)
             /\ (moved /\ pc[r] \notin {"idle", "done", "SaveRequest"})
                   => store' = store
             /\ (moved /\ pc'[r] = "done" /\ resp'[r].status = "error")
                   => store' = store]_vars

C14_Witness ==
    \E r, q \in Slots :
        /\ Submission(r) /\ pc[r] = "done" /\ resp[r].status = "ok"
        /\ firendRequests[Len(firendRequests)] = [from |-> ctx[r].uid, to |-> in[r].uid]
        /\ Submission(q) /\ pc[q] = "done" /\ resp[q] = StorageError
        /\ Len(firendRequests) = 2

(***************************************************************************)
(* C15: a friend request that answers ok has inserted its row: the table   *)
(* after the answering step holds one row more, the row (requester UID,    *)
(* target UID).                                                            *)
(***************************************************************************)
C15_OkOnlyIfPersisted ==
    [][\A r \in Slots :
          ( /\ Submission(r) /\ pc[r] # "done" /\ pc'[r] = "done"
            /\ resp'[r].status = "ok" )
          => firendRequests' =
                Append(firendRequests, [from |-> ctx[r].uid, to |-> in[r].uid])]_vars

(***************************************************************************)
(* C16: a Login for an email no stored user has answers error "user not    *)
(* exist", and a Login whose password matches no stored user of the email  *)
(* answers error "password not correct" (each unless the query failed in   *)
(* storage); a Login goes on to its save only with a matching password;    *)
(* and every Login that answers an error returns no token and leaves the   *)
(* User table and the tokens issued so far as they were, so each token     *)
(* that passed session resolution before the answer passes it after.       *)
(***************************************************************************)
C16_FailedLoginNoEffect ==
    [][\A r \in Slots :
          LET x == in[r]
              rows == {i \in DOMAIN users : users[i].email = x.email}
              matching == {i \in rows : CheckPasswordHash(x.password, users[i].password)}
              left == handler[r] = "Login" /\ pc[r] = "LoginFind" /\ pc'[r] # pc[r]
          IN
          /\ (left /\ x.email # "" /\ rows = {})
                => /\ pc'[r] = "done"
                   /\ resp'[r] \in {StorageError,
                                     Response("error", 400, "user not exist", NoData)}
          /\ (left /\ rows # {} /\ matching = {})
                => /\ pc'[r] = "done"
                   /\ resp'[r] \in {StorageError,
                                     Response("error", 400, "password not correct", NoData)}
          /\ (left /\ pc'[r] = "LoginSave") => matching # {}
          /\ ( /\ handler[r] = "Login" /\ pc[r] # "done" /\ pc'[r] = "done"
               /\ resp'[r].status = "error" )
                => /\ resp'[r].data = NoData
                   /\ issued' = issued
                   /\ users' = users
                   /\ \A k \in DOMAIN issued :
                         Resolves(issued[k], now, users)
                            => Resolves(issued[k], now', users')]_vars

C16_Witness ==
    \E r, q \in Slots :
        /\ handler[r] = "Login" /\ pc[r] = "done" /\ in[r].email = "a"
        /\ resp[r] = Response("error", 400, "password not correct", NoData)
        /\ handler[q] = "Login" /\ pc[q] = "done"
        /\ resp[q] = Response("error", 400, "user not exist", NoData)
        /\ \E k \in DOMAIN issued : Resolves(issued[k], now, users)

(***************************************************************************)
(* C17: a friend request runs its checks in the order self request, target *)
(* lookup, contact, pending request, and is answered by the first that     *)
(* fails (a query failing in storage answers 500 at that point): a target  *)
(* equal to the requester answers "cannot make firend with self" whether   *)
(* or not that user has a row; a target without a User row answers "target *)
(* user not exist" whatever Contact and FirendRequest rows name it; a      *)
(* found target that is a contact answers "target user is already firend"  *)
(* whether or not a request row exists for the pair; "already sent a       *)
(* request to user" is answered only for a found target that is no         *)
(* contact.                                                                *)
(***************************************************************************)
C17_CheckOrder ==
    [][\A r \in Slots :
          LET u == ctx[r]
              x == in[r]
              moved == Submission(r) /\ pc'[r] # pc[r]
              exists == \E i \in DOMAIN users : users[i].uid = x.uid
              contact == <<u.uid, x.uid>> \in contacts
              pending == \E k \in DOMAIN firendRequests :
                            firendRequests[k].from = u.uid /\ firendRequests[k].to = x.uid
              answered(msg) == pc'[r] = "done" /\ resp'[r] = Unprocessable(msg)
              failed == pc'[r] = "done" /\ resp'[r] = StorageError
          IN
          /\ (moved /\ pc[r] = "FindFirend" /\ x.uid = u.uid)
                => answered("cannot make firend with self")
          /\ (moved /\ pc[r] = "FindFirend" /\ x.uid \notin {0, u.uid} /\ ~exists)
                => answered("target user not exist") \/ failed
          /\ (moved /\ pc[r] = "FindFirend" /\ x.uid \notin {0, u.uid} /\ exists)
                => pc'[r] = "FindContact" \/ failed
          /\ (moved /\ pc[r] = "FindContact" /\ contact)
                => answered("target user is already firend") \/ failed
          /\ (moved /\ pc[r] = "FindContact" /\ ~contact)
                => pc'[r] = "FindRequest" \/ failed
          /\ (moved /\ pc[r] = "FindRequest" /\ pending)
                => answered("already sent a request to user") \/ failed
          /\ (moved /\ pc[r] = "FindRequest" /\ ~pending)
                => pc'[r] = "SaveRequest" \/ failed
          /\ (moved /\ answered("already sent a request to user"))
                => pc[r] = "FindRequest" /\ ~contact]_vars

C17_Witness ==
    \E r, q \in Slots :
        /\ Submission(r) /\ pc[r] = "done"
        /\ <<ctx[r].uid, in[r].uid>> \in contacts
        /\ RequestRows(ctx[r].uid, in[r].uid) # {}
        /\ resp[r] = Unprocessable("target user is already firend")
        /\ Submission(q) /\ pc[q] = "done"
        /\ <<ctx[q].uid, in[q].uid>> \in contacts
        /\ RowsByUid(in[q].uid) = {}
        /\ resp[q] = Unprocessable("target user not exist")

(***************************************************************************)
(* C18: no step of ModifyUser changes the stored last-login of a user, so  *)
(* a ModifyUser running beside a Login leaves the last-login the Login     *)
(* wrote.                                                                  *)
(***************************************************************************)
C18_ModifyKeepsLastLogin ==
    [][\A r \in Slots :
          (handler[r] = "ModifyUser" /\ pc[r] = "ModifyUser" /\ pc'[r] = "done")
          => \A i \in DOMAIN users :
                i \in DOMAIN users' /\ users'[i].lastLogin = users[i].lastLogin]_vars

(***************************************************************************)
(* C19: the save of a Login changes only the last-login of the user row:   *)
(* username, email and password stored after it are those stored just      *)
(* before it.                                                              *)
(***************************************************************************)
C19_LoginWritesOnlyLastLogin ==
    [][\A r \in Slots :
          (handler[r] = "Login" /\ pc[r] = "LoginSave" /\ pc'[r] = "done")
          => \A i \in DOMAIN users :
                /\ i \in DOMAIN users'
                /\ users'[i].username = users[i].username
                /\ users'[i].email = users[i].email
                /\ users'[i].password = users[i].password]_vars

(***************************************************************************)
(* C20: a user row that is gone stays gone: no step brings back a row      *)
(* with an id already handed out (a Register takes a new id), and no       *)
(* token issued for such an id passes session resolution.                  *)
(***************************************************************************)
C20_DeletedStaysDeleted ==
    [][\A i \in Ids :
          (i < nextId /\ i \notin DOMAIN users)
          => /\ i \notin DOMAIN users'
             /\ \A k \in DOMAIN issued' :
                   issued'[k].id = i => ~Resolves(issued'[k], now', users')]_vars

=============================================================================
